---- MODULE Spec2Model ----
(***************************************************************************)
(* A model of the ni editor (src/main.c): raw-mode terminal control, the   *)
(* key decoder, the row store with tab rendering, the viewport, and the    *)
(* modal input dispatcher, as one state machine over the global E.         *)
(* Bytes are integers (ASCII codes); C strings are sequences of bytes.     *)
(***************************************************************************)
EXTENDS Integers, Sequences, FiniteSets, TLC

(***************************** characters **********************************)

\* The printable ASCII characters in code order, starting at 32 (space).
Printable ==
  << " ", "!", "DQUOTE", "#", "$", "%", "&", "QUOTE", "(", ")", "*", "+", ",", "-", ".", "/",
     "0", "1", "2", "3", "4", "5", "6", "7", "8", "9", ":", ";", "<", "=", ">", "?",
     "@", "A", "B", "C", "D", "E", "F", "G", "H", "I", "J", "K", "L", "M", "N", "O",
     "P", "Q", "R", "S", "T", "U", "V", "W", "X", "Y", "Z", "[", "BACKSLASH", "]", "^", "_",
     "BACKTICK", "a", "b", "c", "d", "e", "f", "g", "h", "i", "j", "k", "l", "m", "n", "o",
     "p", "q", "r", "s", "t", "u", "v", "w", "x", "y", "z", "{", "|", "}", "~" >>

\* The code of each printable character: its place in the table above.
PrintableCode ==
  [ch \in { Printable[i] : i \in 1..Len(Printable) } |->
     31 + (CHOOSE i \in 1..Len(Printable) : Printable[i] = ch)]

\* The code of a character literal of the source; TAB, CR and ESC name the
\* control characters 9, 13 and 27.
Ord(ch) ==
  CASE ch = "TAB" -> 9
    [] ch = "CR" -> 13
    [] ch = "ESC" -> 27
    [] OTHER -> PrintableCode[ch]

\* A string literal of the source, written as a tuple of its characters.
Bytes(s) == [i \in 1..Len(s) |-> Ord(s[i])]

\* <ctype.h> in the C locale, for bytes 0..127.
isspace(c) == c = 32 \/ (c >= 9 /\ c <= 13)
ispunct(c) == (c >= 33 /\ c <= 47) \/ (c >= 58 /\ c <= 64)
              \/ (c >= 91 /\ c <= 96) \/ (c >= 123 /\ c <= 126)
isprint(c) == c >= 32 /\ c <= 126

(******************************* defines ***********************************)

NI_TAB_STOP == 4

CTRL_KEY(k) == k % 32

ARROW_LEFT == 1000
ARROW_RIGHT == ARROW_LEFT + 1
ARROW_UP == ARROW_LEFT + 2
ARROW_DOWN == ARROW_LEFT + 3
DEL_KEY == ARROW_LEFT + 4
HOME_KEY == ARROW_LEFT + 5
END_KEY == ARROW_LEFT + 6
PAGE_UP == ARROW_LEFT + 7
PAGE_DOWN == ARROW_LEFT + 8

INSERT_MODE == 0
NORMAL_MODE == 1
COMMAND_MODE == 2

ESC == Ord("ESC")
ENTER == Ord("CR")
STATUSMSG_SIZE == 80

\* int is 32 bits wide (two's complement); Half is 2^16, one half of it.
INT_BITS == 32
Half == 2 ^ (INT_BITS \div 2)

\* (int)(a * 10 + n) for an int a and 0 <= n <= 9, computed on the two
\* 16-bit halves of a so that no intermediate value leaves 32 bits.
MulTenAdd(a, n) ==
  LET lo == a % Half
      hi == ((a - lo) \div Half) % Half
      l2 == lo * 10 + n
      h2 == (hi * 10 + (l2 \div Half)) % Half
  IN  (IF h2 >= Half \div 2 THEN h2 - Half ELSE h2) * Half + (l2 % Half)

\* (size_t) v > 0 for an int v: a negative v converts to a huge positive
\* size_t, so only v = 0 is not above 0.
SizePositive(v) == v # 0

\* (size_t) v is larger than any block realloc can return: v is negative.
SizeTooLarge(v) == v < 0

(***************************** key decoder *********************************)

\* A byte b (0..255) read into a char and used as an int.  Whether char is
\* signed is the choice of the ABI the program is built for: where it is (x86,
\* macOS), the bytes from 128 up are negative.
CharToInt(b, signedChar) == IF signedChar /\ b >= 128 THEN b - 256 ELSE b

\* The chars that the reads of one call store, for the bytes the terminal holds.
CharReads(bytes) ==
  { [i \in 1..Len(bytes) |-> CharToInt(bytes[i], signedChar)] : signedChar \in BOOLEAN }

\* editorReadKey mapping ESC [ d ~ with a digit outside its switch to HOME_KEY.
editorReadKeyAnyDigit(inp) ==
  LET c == inp[1]
  IN  IF c # ESC THEN c
      ELSE IF Len(inp) < 3 THEN ESC
      ELSE IF inp[2] = Ord("[")
           THEN IF inp[3] >= Ord("0") /\ inp[3] <= Ord("9")
                THEN IF Len(inp) < 4 THEN ESC
                     ELSE IF inp[4] = Ord("~")
                          THEN CASE inp[3] = Ord("3") -> DEL_KEY
                                 [] inp[3] = Ord("4") -> END_KEY
                                 [] inp[3] = Ord("5") -> PAGE_UP
                                 [] inp[3] = Ord("6") -> PAGE_DOWN
                                 [] inp[3] = Ord("8") -> END_KEY
                                 [] OTHER -> HOME_KEY
                          ELSE ESC
                ELSE CASE inp[3] = Ord("A") -> ARROW_UP
                       [] inp[3] = Ord("B") -> ARROW_DOWN
                       [] inp[3] = Ord("C") -> ARROW_RIGHT
                       [] inp[3] = Ord("D") -> ARROW_LEFT
                       [] inp[3] = Ord("H") -> HOME_KEY
                       [] inp[3] = Ord("F") -> END_KEY
                       [] OTHER -> ESC
           ELSE ESC

\* editorReadKey on the chars the terminal delivers to this call: inp[1] is the
\* char the first read loop returns, inp[2..] the chars the lookahead reads
\* get; a read past the end of inp returns no byte (it times out or fails).
\* For the ASCII bytes a char is its byte.
editorReadKey(inp) ==
  LET c == inp[1]
  IN  IF c # ESC THEN c
      ELSE IF Len(inp) < 2 THEN ESC
      ELSE IF Len(inp) < 3 THEN ESC
      ELSE IF inp[2] = Ord("[")
           THEN IF inp[3] >= Ord("0") /\ inp[3] <= Ord("9")
                THEN IF Len(inp) < 4 THEN ESC
                     ELSE IF inp[4] = Ord("~")
                          THEN CASE inp[3] = Ord("1") -> HOME_KEY
                                 [] inp[3] = Ord("3") -> DEL_KEY
                                 [] inp[3] = Ord("4") -> END_KEY
                                 [] inp[3] = Ord("5") -> PAGE_UP
                                 [] inp[3] = Ord("6") -> PAGE_DOWN
                                 [] inp[3] = Ord("7") -> HOME_KEY
                                 [] inp[3] = Ord("8") -> END_KEY
                                 [] OTHER -> ESC
                          ELSE ESC
                ELSE CASE inp[3] = Ord("A") -> ARROW_UP
                       [] inp[3] = Ord("B") -> ARROW_DOWN
                       [] inp[3] = Ord("C") -> ARROW_RIGHT
                       [] inp[3] = Ord("D") -> ARROW_LEFT
                       [] inp[3] = Ord("H") -> HOME_KEY
                       [] inp[3] = Ord("F") -> END_KEY
                       [] OTHER -> ESC
           ELSE ESC

\* The number of reads editorReadKey makes after the one that returned inp[1]:
\* seq[0] and seq[1] after an ESC, and seq[2] after ESC [ digit; a read that
\* returns no byte is the last one.
LookaheadReads(inp) ==
  IF inp[1] # ESC THEN 0
  ELSE IF Len(inp) < 2 THEN 1
  ELSE IF Len(inp) < 3 THEN 2
  ELSE IF inp[2] = Ord("[") /\ inp[3] >= Ord("0") /\ inp[3] <= Ord("9") THEN 3
  ELSE 2

\* No call of editorReadKey made on its own yet.
NoCall == [inp |-> << >>, key |-> 0, reads |-> 0]

(**************************** row operations *******************************)

\* editorRowCxToRx: the rendered column of character offset cx of a row.
RECURSIVE CxToRxFrom(_, _, _, _)
CxToRxFrom(chars, cx, j, rx) ==
  IF j >= cx THEN rx
  ELSE LET r1 == IF chars[j + 1] = Ord("TAB")
                 THEN rx + (NI_TAB_STOP - 1) - (rx % NI_TAB_STOP)
                 ELSE rx
       IN  CxToRxFrom(chars, cx, j + 1, r1 + 1)

editorRowCxToRx(r, c) == CxToRxFrom(r.chars, c, 0, 0)

\* editorUpdateRow writing one space for a tab and no padding.
PadToTabStopNone(render) == render

\* The inner loop of editorUpdateRow: pad with spaces up to the next tab stop.
RECURSIVE PadToTabStop(_)
PadToTabStop(render) ==
  IF Len(render) % NI_TAB_STOP # 0 THEN PadToTabStop(Append(render, Ord(" ")))
  ELSE render

RECURSIVE RenderFrom(_, _, _)
RenderFrom(chars, j, render) ==
  IF j >= Len(chars) THEN render
  ELSE IF chars[j + 1] = Ord("TAB")
       THEN RenderFrom(chars, j + 1, PadToTabStop(Append(render, Ord(" "))))
       ELSE RenderFrom(chars, j + 1, Append(render, chars[j + 1]))

\* editorUpdateRow: the row with its render and rsize regenerated from chars.
editorUpdateRow(r) ==
  LET render == RenderFrom(r.chars, 0, << >>)
  IN  [r EXCEPT !.render = render, !.rsize = Len(render)]

\* editorAppendRow: the row array with the line s appended at index numrows.
editorAppendRow(rows, s) ==
  Append(rows, editorUpdateRow([size |-> Len(s), rsize |-> 0, chars |-> s, render |-> << >>]))

\* editorOpen's loop: one row per line of the file, in file order.
RECURSIVE LoadRows(_, _)
LoadRows(rows, lines) ==
  IF lines = << >> THEN rows
  ELSE LoadRows(editorAppendRow(rows, Head(lines)), Tail(lines))

(************************* dynamic string (abuf) ***************************)

\* An abuf is [b, len, ptr]: b is the content of the heap block that ab->b
\* points to, len is ab->len, and ptr says what ab->b is: "null", "live" (a
\* block the program owns) or "freed" (abFree released it and left ab->b
\* dangling).  An operation that is undefined behaviour in C is a set of
\* outcomes, one of which is the process crashing.
ABUF_INIT == [b |-> << >>, len |-> 0, ptr |-> "null"]

\* What a read of memory the program never wrote can find before the first
\* NUL byte: nothing, or a leftover byte.
Garbage == { << >>, << Ord("#") >> }

\* abAppend of the bytes s.  realloc(ab->b, ab->len + len):
\*   - ab->b dangling: undefined; the block is handed back or the heap check
\*     aborts the process;
\*   - size 0 (len = -Len(s)): the block is released and NULL returned, so
\*     abAppend returns with ab->b dangling; or a minimal block is returned
\*     and memcpy writes before its start (undefined: crash, or len becomes 0);
\*   - size beyond the address space (len + Len(s) negative, as size_t): NULL;
\*   - otherwise the grown block (a request the heap can meet is met: the
\*     model has no out-of-memory failure, here or in the row store).
abAppend(ab, s) ==
  LET need == ab.len + Len(s)
      keep == [ab |-> ab, crash |-> FALSE]
      dead == [ab |-> ab, crash |-> TRUE]
      kept == IF ab.len > 0 THEN SubSeq(ab.b, 1, ab.len) ELSE << >>
      grown == [ab |-> [b |-> kept \o s, len |-> ab.len + Len(s), ptr |-> "live"],
                crash |-> FALSE]
      under == [ab |-> [b |-> << >>, len |-> ab.len + Len(s), ptr |-> "live"],
                crash |-> FALSE]
      valid == IF need = 0
               THEN { IF ab.ptr = "null" THEN keep
                      ELSE [ab |-> [ab EXCEPT !.ptr = "freed", !.b = << >>], crash |-> FALSE],
                      under, dead }
               ELSE IF SizeTooLarge(need) THEN { keep }
               ELSE { grown }
  IN  IF ab.ptr = "freed" THEN valid \cup { dead } ELSE valid

\* abDelete: ab->len - n is computed in size_t, so it is "> 0" unless len = n.
abDelete(ab, n) ==
  IF SizePositive(ab.len - n)
  THEN [ab EXCEPT !.len = ab.len - n]
  ELSE ab

\* abFree releasing the block without resetting len.
abFreeKeepsLen(ab) ==
  CASE ab.ptr = "null" -> { [ab |-> ab, crash |-> FALSE] }
    [] ab.ptr = "live" -> { [ab |-> [ab EXCEPT !.ptr = "freed"], crash |-> FALSE] }
    [] OTHER -> { [ab |-> ab, crash |-> FALSE], [ab |-> ab, crash |-> TRUE] }

\* abFree: len is reset, the block is released, and ab->b keeps its value.
\* Releasing a dangling pointer a second time is undefined.
abFree(ab) ==
  LET freed == [ab |-> [b |-> << >>, len |-> 0, ptr |-> "freed"], crash |-> FALSE]
  IN  CASE ab.ptr = "null" -> { [ab |-> [ab EXCEPT !.len = 0], crash |-> FALSE] }
        [] ab.ptr = "live" -> { freed }
        [] OTHER -> { freed, [ab |-> ab, crash |-> TRUE] }

\* vsnprintf into statusmsg[80]: at most 79 bytes and the NUL.
Truncate(str) ==
  IF Len(str) > STATUSMSG_SIZE - 1 THEN SubSeq(str, 1, STATUSMSG_SIZE - 1) ELSE str

\* editorSetStatusMsg(":%s", E.cmdbuf.b): %s reads ab->b as a C string, but
\* abAppend never writes a terminating NUL, so the read runs past the block
\* (Garbage); a NULL or dangling ab->b is undefined as well.
editorSetStatusMsgCmd(ab) ==
  LET colon == << Ord(":") >>
  IN  CASE ab.ptr = "live" ->
             { [msg |-> Truncate(colon \o ab.b \o g), crash |-> FALSE] : g \in Garbage }
        [] ab.ptr = "null" ->
             { [msg |-> colon \o Bytes(<< "(", "n", "u", "l", "l", ")" >>), crash |-> FALSE],
               [msg |-> << >>, crash |-> TRUE] }
        [] OTHER ->
             { [msg |-> Truncate(colon \o g), crash |-> FALSE] : g \in Garbage }
             \cup { [msg |-> << >>, crash |-> TRUE] }

\* editorCommandModeHandle looking at the first byte of the buffer only.
editorCommandModeHandleFirst(ab) ==
  ab.len >= 1 /\ ab.b[1] = Ord("q")

\* editorCommandModeHandle: _quit is set iff one of the first len bytes is 'q'.
editorCommandModeHandle(ab) ==
  \E j \in 1..ab.len : j <= Len(ab.b) /\ ab.b[j] = Ord("q")

(******************************** state ************************************)

\* struct editorConfig E, the terminal, and the process.
\*   pc        where main is: "main" (before enableRawMode), "initEditor",
\*             "open", "refresh" and "key" (the two calls of the loop),
\*             "atexit" (exit was called, the handlers are to run), "exited",
\*             "crashed" (killed by a signal: no exit handler runs)
\*   raw       the terminal is in the raw configuration
\*   hooks     how many times atexit(disableRawMode) was registered
\*   restores  how many times disableRawMode ran
\*   restoreFailed  the tcsetattr of disableRawMode failed
\*   exitstatus     the status of the last exit call, -1 before any
\*   dieMsg    the argument of the call of die, "" before any
\*   cleared   the screen-clear sequence was written (die, editorExit)
\*   failed    the library call that failed in the step just taken, "" if none
\*   written   the terminal writes of the step just taken, in order
\*   decoded   the last call of editorReadKey made on its own: the bytes the
\*             terminal held, the key returned and the lookahead reads made
VARIABLES mode, cmdbuf, cmdrep, cx, cy, rx, rowoff, coloff, screenrows, screencols,
          numrows, row, statusmsg,
          pc, raw, hooks, restores, restoreFailed, exitstatus, dieMsg, cleared,
          failed, written, decoded

editor == << mode, cmdbuf, cmdrep, cx, cy, rx, rowoff, coloff, screenrows, screencols,
             numrows, row, statusmsg >>
process == << pc, raw, hooks, restores, restoreFailed, exitstatus, dieMsg, cleared >>
io == << failed, written >>
vars == << editor, process, io, decoded >>

(******************************** input ************************************)

\* row->size of row y, 0 when y is past the last row (row == NULL).
RowLen(y) == IF y >= numrows THEN 0 ELSE row[y + 1].size

\* chars[i] of a row, i in 0..size; chars[size] is the terminating NUL.
CharAt(r, i) == IF i < r.size THEN r.chars[i + 1] ELSE 0

\* while (E.cx < row->size && !isspace(chars[E.cx++])) {}
RECURSIVE ScanUpper(_, _)
ScanUpper(r, x) ==
  IF x < r.size
  THEN IF ~isspace(CharAt(r, x)) THEN ScanUpper(r, x + 1) ELSE x + 1
  ELSE x

\* The scan of w and e leaving E.cx where it was.
ScanLowerStay(r, x) == x

\* while (E.cx < row->size && !isspace(chars[E.cx++]) && !ispunct(chars[E.cx])) {}
RECURSIVE ScanLower(_, _)
ScanLower(r, x) ==
  IF x < r.size
  THEN IF ~isspace(CharAt(r, x)) /\ ~ispunct(CharAt(r, x + 1))
       THEN ScanLower(r, x + 1)
       ELSE x + 1
  ELSE x

\* The word motions without the loop that moves past spaces.
SkipSpacesNone(r, x) == x

\* while (E.cx < row->size && chars[E.cx] == ' ') E.cx++;
RECURSIVE SkipSpaces(_, _)
SkipSpaces(r, x) ==
  IF x < r.size /\ CharAt(r, x) = Ord(" ") THEN SkipSpaces(r, x + 1) ELSE x

\* The offsets of row->chars that the scan loop reads from E.cx = x: chars[x]
\* by the post-increment and, for w and e (lower), chars[x + 1] when the
\* first test let the && go on.
RECURSIVE ScanReads(_, _, _)
ScanReads(r, x, lower) ==
  IF x < r.size
  THEN { x } \cup
       (IF isspace(CharAt(r, x)) THEN { }
        ELSE IF lower
             THEN { x + 1 } \cup
                  (IF ispunct(CharAt(r, x + 1)) THEN { } ELSE ScanReads(r, x + 1, lower))
             ELSE ScanReads(r, x + 1, lower))
  ELSE { }

\* The offsets that the loop over the spaces reads from E.cx = x.
RECURSIVE SkipReads(_, _)
SkipReads(r, x) ==
  IF x < r.size
  THEN { x } \cup (IF CharAt(r, x) = Ord(" ") THEN SkipReads(r, x + 1) ELSE { })
  ELSE { }

\* The offsets of the row that editorMoveCursor reads for a word motion.
WordReads(cur, key) ==
  LET r == row[cur.cy + 1]
      lower == key = Ord("w") \/ key = Ord("e")
      x1 == IF lower THEN ScanLower(r, cur.cx) ELSE ScanUpper(r, cur.cx)
  IN  ScanReads(r, cur.cx, lower)
      \cup (IF key = Ord("W") \/ key = Ord("w") THEN SkipReads(r, x1) ELSE { })

\* MoveSwitch with 'b' and 'B' moving one character back, as 'h' does.
MoveSwitchBack(cur, key) ==
  IF key \in { Ord("b"), Ord("B"), Ord("h"), ARROW_LEFT }
  THEN IF cur.cx # 0 THEN [cur EXCEPT !.cx = cur.cx - 1]
       ELSE IF cur.cy > 0 THEN [cx |-> row[cur.cy].size, cy |-> cur.cy - 1]
       ELSE cur
  ELSE cur

\* The switch of editorMoveCursor with Left and Right stopping at the ends
\* of the row.
MoveSwitchNoWrap(cur, key) ==
  CASE key = Ord("k") \/ key = ARROW_UP ->
         IF cur.cy # 0 THEN [cur EXCEPT !.cy = cur.cy - 1] ELSE cur
    [] key = Ord("j") \/ key = ARROW_DOWN ->
         IF cur.cy < numrows THEN [cur EXCEPT !.cy = cur.cy + 1] ELSE cur
    [] key = Ord("h") \/ key = ARROW_LEFT ->
         IF cur.cx # 0 THEN [cur EXCEPT !.cx = cur.cx - 1] ELSE cur
    [] key = Ord("l") \/ key = ARROW_RIGHT ->
         IF cur.cy < numrows /\ cur.cx < RowLen(cur.cy)
         THEN [cur EXCEPT !.cx = cur.cx + 1] ELSE cur
    [] OTHER -> cur

\* The switch of editorMoveCursor, before the final snap.
MoveSwitch(cur, key) ==
  LET hasrow == cur.cy < numrows
  IN  CASE key = Ord("k") \/ key = ARROW_UP ->
             IF cur.cy # 0 THEN [cur EXCEPT !.cy = cur.cy - 1] ELSE cur
        [] key = Ord("j") \/ key = ARROW_DOWN ->
             IF cur.cy < numrows THEN [cur EXCEPT !.cy = cur.cy + 1] ELSE cur
        [] key = Ord("h") \/ key = ARROW_LEFT ->
             IF cur.cx # 0 THEN [cur EXCEPT !.cx = cur.cx - 1]
             ELSE IF cur.cy > 0 THEN [cx |-> row[cur.cy].size, cy |-> cur.cy - 1]
             ELSE cur
        [] key = Ord("l") \/ key = ARROW_RIGHT ->
             IF hasrow /\ cur.cx < RowLen(cur.cy) THEN [cur EXCEPT !.cx = cur.cx + 1]
             ELSE IF hasrow /\ cur.cx = RowLen(cur.cy) THEN [cx |-> 0, cy |-> cur.cy + 1]
             ELSE cur
        [] key \in { Ord("w"), Ord("W"), Ord("e"), Ord("E") } ->
             IF hasrow
             THEN LET r == row[cur.cy + 1]
                      x1 == IF key = Ord("W") \/ key = Ord("E")
                            THEN ScanUpper(r, cur.cx)
                            ELSE ScanLower(r, cur.cx)
                      x2 == IF key = Ord("W") \/ key = Ord("w")
                            THEN SkipSpaces(r, x1)
                            ELSE x1
                  IN  IF x2 >= r.size THEN [cx |-> 0, cy |-> cur.cy + 1]
                      ELSE [cx |-> x2, cy |-> cur.cy]
             ELSE cur
        [] OTHER -> cur

\* editorMoveCursor without the final snap of cx.
editorMoveCursorNoSnap(cur, key) == MoveSwitch(cur, key)

\* editorMoveCursor: the switch, then the snap of cx to the length of the row.
editorMoveCursor(cur, key) ==
  LET m == MoveSwitch(cur, key)
      rowlen == RowLen(m.cy)
  IN  IF m.cx > rowlen THEN [m EXCEPT !.cx = rowlen] ELSE m

\* while (times--) editorMoveCursor(key);
RECURSIVE MoveTimes(_, _, _)
MoveTimes(cur, key, times) ==
  IF times = 0 THEN cur ELSE MoveTimes(editorMoveCursor(cur, key), key, times - 1)

\* The case of Ctrl-U, Ctrl-D, PageUp and PageDown.
PageMove(cur, c) ==
  LET up == c = PAGE_UP \/ c = CTRL_KEY(Ord("u"))
      bottom == rowoff + screenrows - 1
      snapped == IF up THEN [cur EXCEPT !.cy = rowoff]
                 ELSE [cur EXCEPT !.cy = IF bottom > numrows THEN numrows ELSE bottom]
  IN  MoveTimes(snapped, IF up THEN ARROW_UP ELSE ARROW_DOWN, screenrows)

\* editorNormalModeNumRep: int arithmetic; an overflow wraps in this build.
editorNormalModeNumRep(rep, n) == MulTenAdd(rep, n)

\* The test that sends a key of Normal mode to editorNormalModeNumRep.
IsRepDigit(c, rep) == c <= Ord("9") /\ (c >= Ord("1") \/ (rep # 0 /\ c >= Ord("0")))

(****************************** dispatcher *********************************)

\* The outcome of one call of a handler: the fields of E it may change and
\* how the call ends: "return", "exit" (editorExit), "die" or "crash".
Outcome(m, ab, rep, cur, msg, fate) ==
  [mode |-> m, cmdbuf |-> ab, cmdrep |-> rep, cx |-> cur.cx, cy |-> cur.cy,
   statusmsg |-> msg, fate |-> fate]

Here == [cx |-> cx, cy |-> cy]
Same(fate) == Outcome(mode, cmdbuf, cmdrep, Here, statusmsg, fate)

\* The branch E.mode == NORMAL_MODE of editorProcessKeypress.
NormalModeKey(c) ==
  IF IsRepDigit(c, cmdrep)
  THEN { Outcome(mode, cmdbuf, editorNormalModeNumRep(cmdrep, c - Ord("0")), Here,
                 statusmsg, "return") }
  ELSE CASE c = Ord("i") ->
              { Outcome(INSERT_MODE, cmdbuf, 0, Here, statusmsg, "return") }
         [] c = Ord(":") ->
              { Outcome(COMMAND_MODE, cmdbuf, 0, Here, << Ord(":") >>, "return") }
         [] c = CTRL_KEY(Ord("q")) ->
              { Same("exit") }
         [] c = Ord("0") \/ c = HOME_KEY ->
              { Outcome(mode, cmdbuf, 0, [Here EXCEPT !.cx = 0], statusmsg, "return") }
         [] c = Ord("$") \/ c = END_KEY ->
              { Outcome(mode, cmdbuf, 0,
                        IF cy < numrows THEN [Here EXCEPT !.cx = row[cy + 1].size] ELSE Here,
                        statusmsg, "return") }
         [] c \in { CTRL_KEY(Ord("u")), CTRL_KEY(Ord("d")), PAGE_UP, PAGE_DOWN } ->
              { Outcome(mode, cmdbuf, 0, PageMove(Here, c), statusmsg, "return") }
         [] c \in { Ord("k"), Ord("j"), Ord("l"), Ord("h"),
                    ARROW_UP, ARROW_DOWN, ARROW_LEFT, ARROW_RIGHT,
                    Ord("w"), Ord("W"), Ord("b"), Ord("B"), Ord("e"), Ord("E") } ->
              { Outcome(mode, cmdbuf, 0, editorMoveCursor(Here, c), statusmsg, "return") }
         [] OTHER ->
              { Outcome(mode, cmdbuf, 0, Here, statusmsg, "return") }

\* InsertModeKey with ESC falling through to the arrow keys' case.
InsertModeKeyNoEsc(c) ==
  CASE c \in { ESC, ARROW_UP, ARROW_DOWN, ARROW_LEFT, ARROW_RIGHT } ->
         { Outcome(mode, cmdbuf, cmdrep, editorMoveCursor(Here, c), statusmsg, "return") }
    [] OTHER -> { Same("return") }

\* InsertModeKey with the letters h, j, k, l moving the cursor as well.
InsertModeKeyLetters(c) ==
  CASE c = ESC ->
         { Outcome(NORMAL_MODE, cmdbuf, cmdrep, Here, statusmsg, "return") }
    [] c \in { ARROW_UP, ARROW_DOWN, ARROW_LEFT, ARROW_RIGHT,
               Ord("h"), Ord("j"), Ord("k"), Ord("l") } ->
         { Outcome(mode, cmdbuf, cmdrep, editorMoveCursor(Here, c), statusmsg, "return") }
    [] OTHER -> { Same("return") }

\* The branch E.mode == INSERT_MODE.
InsertModeKey(c) ==
  CASE c = ESC ->
         { Outcome(NORMAL_MODE, cmdbuf, cmdrep, Here, statusmsg, "return") }
    [] c \in { ARROW_UP, ARROW_DOWN, ARROW_LEFT, ARROW_RIGHT } ->
         { Outcome(mode, cmdbuf, cmdrep, editorMoveCursor(Here, c), statusmsg, "return") }
    [] OTHER -> { Same("return") }

\* abFree(&E.cmdbuf); editorSetStatusMsg(""); E.mode = NORMAL_MODE;
LeaveCommandMode ==
  { IF f.crash THEN Same("crash")
    ELSE Outcome(NORMAL_MODE, f.ab, cmdrep, Here, << >>, "return") : f \in abFree(cmdbuf) }

\* isprint(c) of the default case.  For a key code that is no unsigned char
\* (the arrow and page keys, 1000..1008) isprint is undefined: the table
\* lookup reads past the table and may answer either way.
IsPrintOutcomes(c) == IF c >= 0 /\ c <= 255 THEN { isprint(c) } ELSE BOOLEAN

\* abAppend(&E.cmdbuf, (char *) &c, 1); editorSetStatusMsg(":%s", E.cmdbuf.b);
\* the byte appended is the low byte of the int c.
AppendToCommand(c) ==
  UNION { IF a.crash THEN { Same("crash") }
          ELSE { IF t.crash THEN Same("crash")
                 ELSE Outcome(mode, a.ab, cmdrep, Here, t.msg, "return")
                 : t \in editorSetStatusMsgCmd(a.ab) }
          : a \in abAppend(cmdbuf, << c % 256 >>) }

\* The branch E.mode == COMMAND_MODE.
CommandModeKey(c) ==
  CASE c = ENTER ->
         IF editorCommandModeHandle(cmdbuf) THEN { Same("exit") } ELSE LeaveCommandMode
    [] c = ESC -> LeaveCommandMode
    [] c = Ord("8") ->
         { Outcome(mode, abDelete(cmdbuf, 1), cmdrep, Here, statusmsg, "return") }
    [] OTHER ->
         UNION { IF p THEN AppendToCommand(c) ELSE { Same("return") }
                 : p \in IsPrintOutcomes(c) }

\* editorProcessKeypress after editorReadKey returned c.
editorProcessKeypress(c) ==
  IF mode = NORMAL_MODE THEN NormalModeKey(c)
  ELSE IF mode = INSERT_MODE THEN InsertModeKey(c)
  ELSE IF mode = COMMAND_MODE THEN CommandModeKey(c)
  ELSE { Same("die") }

(******************************** output ***********************************)

\* editorScroll with the lower clamps off by one (cy - screenrows, rx - screencols).
editorScrollOffByOne ==
  LET rx1 == IF cy < numrows THEN editorRowCxToRx(row[cy + 1], cx) ELSE 0
      ro1 == IF cy < rowoff THEN cy ELSE rowoff
      ro2 == IF cy >= ro1 + screenrows THEN cy - screenrows ELSE ro1
      co1 == IF rx1 < coloff THEN rx1 ELSE coloff
      co2 == IF rx1 >= co1 + screencols THEN rx1 - screencols ELSE co1
  IN  [rx |-> rx1, rowoff |-> ro2, coloff |-> co2]

\* editorScroll without the two ifs that move an offset back to the cursor.
editorScrollNoBack ==
  LET rx1 == IF cy < numrows THEN editorRowCxToRx(row[cy + 1], cx) ELSE 0
      ro2 == IF cy >= rowoff + screenrows THEN cy - screenrows + 1 ELSE rowoff
      co2 == IF rx1 >= coloff + screencols THEN rx1 - screencols + 1 ELSE coloff
  IN  [rx |-> rx1, rowoff |-> ro2, coloff |-> co2]

\* editorScroll: rx, then the four clamps in the order of the code.
editorScroll ==
  LET rx1 == IF cy < numrows THEN editorRowCxToRx(row[cy + 1], cx) ELSE 0
      ro1 == IF cy < rowoff THEN cy ELSE rowoff
      ro2 == IF cy >= ro1 + screenrows THEN cy - screenrows + 1 ELSE ro1
      co1 == IF rx1 < coloff THEN rx1 ELSE coloff
      co2 == IF rx1 >= co1 + screencols THEN rx1 - screencols + 1 ELSE co1
  IN  [rx |-> rx1, rowoff |-> ro2, coloff |-> co2]

\* E.cx is inside row E.cy, or there is no row: editorRowCxToRx reads only
\* chars[0 .. size).
CursorInRow == cy >= numrows \/ cx <= row[cy + 1].size

\* What a byte past the end of a heap block can hold.
PastTheBlock == { Ord("#"), Ord("TAB") }

\* chars[0 .. n) of a row for n > size: the terminating NUL at chars[size],
\* then bytes past the block, each holding g.
CharsPast(r, n, g) ==
  [j \in 1..n |-> IF j <= r.size THEN r.chars[j] ELSE IF j = r.size + 1 THEN 0 ELSE g]

\* The four clamps of editorScroll for the rendered column rx1.
ScrollTo(rx1) ==
  LET ro1 == IF cy < rowoff THEN cy ELSE rowoff
      ro2 == IF cy >= ro1 + screenrows THEN cy - screenrows + 1 ELSE ro1
      co1 == IF rx1 < coloff THEN rx1 ELSE coloff
      co2 == IF rx1 >= co1 + screencols THEN rx1 - screencols + 1 ELSE co1
  IN  [rx |-> rx1, rowoff |-> ro2, coloff |-> co2]

\* The outcomes of the call of editorScroll.  With E.cx past the end of the
\* row, editorRowCxToRx reads chars[size] and then past the block, which is
\* undefined: the bytes found are garbage, or the read faults.
ScrollOutcomes ==
  IF CursorInRow
  THEN { [s |-> editorScroll, crash |-> FALSE] }
  ELSE { [s |-> ScrollTo(CxToRxFrom(CharsPast(row[cy + 1], cx, g), cx, 0, 0)), crash |-> FALSE]
         : g \in PastTheBlock }
       \cup (IF cx > row[cy + 1].size + 1
             THEN { [s |-> [rx |-> rx, rowoff |-> rowoff, coloff |-> coloff], crash |-> TRUE] }
             ELSE { })

\* The arguments of the cursor-position escape of editorRefreshScreen.
CursorEscape == << cy + 1 - rowoff, rx + 1 - coloff >>

Min(a, b) == IF a < b THEN a ELSE b

\* The banner of editorDrawRows, "Ni editor -- version " NI_VERSION.
Welcome ==
  Bytes(<< "N", "i", " ", "e", "d", "i", "t", "o", "r", " ", "-", "-", " ",
           "v", "e", "r", "s", "i", "o", "n", " ", "0", ".", "0", ".", "1" >>)

\* editorDrawRows: the text of screen line y (from 0), before the escapes
\* that end every line.
DrawRow(y) ==
  LET filerow == y + rowoff
  IN  IF filerow >= numrows
      THEN IF numrows = 0 /\ y = screenrows \div 3
           THEN LET welcomelen == Min(Len(Welcome), screencols)
                    padding == (screencols - welcomelen) \div 2
                IN  (IF padding # 0
                     THEN << Ord("~") >> \o [i \in 1..(padding - 1) |-> Ord(" ")]
                     ELSE << >>)
                    \o SubSeq(Welcome, 1, welcomelen)
           ELSE << Ord("~") >>
      ELSE LET r == row[filerow + 1]
               len0 == r.rsize - coloff
               len == IF len0 < 0 THEN 0 ELSE Min(len0, screencols)
           IN  SubSeq(r.render, coloff + 1, coloff + len)

\* editorGetMode.
editorGetMode ==
  CASE mode = INSERT_MODE -> "INSERT"
    [] mode = NORMAL_MODE -> "NORMAL"
    [] mode = COMMAND_MODE -> "COMMAND"
    [] OTHER -> "UNKNOWN"

\* The frame editorRefreshScreen composes in its buffer, as the values that
\* go into it: the screen lines of editorDrawRows, the fields of the status
\* bar (mode, number of lines, cy + 1 : cx + 1), the message cut to the
\* screen width, the repeat count shown when non-zero, and the arguments of
\* the cursor-position escape.
Frame ==
  [lines |-> [y \in 1..screenrows |-> DrawRow(y - 1)],
   bar |-> << editorGetMode, numrows, cy + 1, cx + 1 >>,
   msg |-> SubSeq(statusmsg, 1, Min(Len(statusmsg), screencols)),
   rep |-> cmdrep,
   cursor |-> CursorEscape]

(******************************* process ***********************************)

\* The two writes of die and of editorExit: erase the screen, cursor home.
ClearScreen == << [what |-> "clear", frame |-> << >>], [what |-> "home", frame |-> << >>] >>

\* A step that returns normally: no exit, no write of the clear sequence.
Returns == UNCHANGED << exitstatus, dieMsg, cleared >>

\* exit(n): the status is recorded and the atexit handlers are to run.
Exit(n) ==
  /\ exitstatus' = n
  /\ pc' = "atexit"

\* die(s): clear the screen, report s, exit(1).
die(s) ==
  /\ cleared' = TRUE
  /\ written' = ClearScreen
  /\ dieMsg' = s
  /\ Exit(1)

\* editorExit: clear the screen, exit(0).
editorExit ==
  /\ cleared' = TRUE
  /\ written' = ClearScreen
  /\ dieMsg' = dieMsg
  /\ Exit(0)

Init ==
  /\ mode = INSERT_MODE
  /\ cmdbuf = ABUF_INIT
  /\ cmdrep = 0
  /\ cx = 0
  /\ cy = 0
  /\ rx = 0
  /\ rowoff = 0
  /\ coloff = 0
  /\ screenrows = 0
  /\ screencols = 0
  /\ numrows = 0
  /\ row = << >>
  /\ statusmsg = << >>
  /\ pc = "main"
  /\ raw = FALSE
  /\ hooks = 0
  /\ restores = 0
  /\ restoreFailed = FALSE
  /\ exitstatus = -1
  /\ dieMsg = ""
  /\ cleared = FALSE
  /\ failed = ""
  /\ written = << >>
  /\ decoded = NoCall

\* enableRawMode: tcgetattr, atexit(disableRawMode), tcsetattr(raw); either
\* terminal call can fail.
enableRawMode ==
  /\ pc = "main"
  /\ \E got \in BOOLEAN, set \in BOOLEAN :
       IF ~got
       THEN /\ failed' = "tcgetattr"
            /\ die("tcgetattr")
            /\ UNCHANGED << hooks, raw >>
       ELSE /\ hooks' = hooks + 1
            /\ IF ~set
               THEN /\ failed' = "tcsetattr"
                    /\ die("tcsetattr")
                    /\ UNCHANGED raw
               ELSE /\ raw' = TRUE
                    /\ pc' = "initEditor"
                    /\ failed' = ""
                    /\ written' = << >>
                    /\ Returns
  /\ UNCHANGED << editor, restores, restoreFailed, decoded >>

\* initEditor: the fields of E, then getWindowSize, which fails or reports a
\* window ws = <<ws_row, ws_col>>; two lines are kept for the bars.
initEditor(winsizes) ==
  /\ pc = "initEditor"
  /\ mode' = NORMAL_MODE
  /\ cmdbuf' = ABUF_INIT
  /\ cx' = 0
  /\ cy' = 0
  /\ rx' = 0
  /\ rowoff' = 0
  /\ coloff' = 0
  /\ numrows' = 0
  /\ row' = << >>
  /\ statusmsg' = << >>
  /\ \/ /\ failed' = "getWindowSize"
        /\ die("getWindowSize")
        /\ UNCHANGED << screenrows, screencols >>
     \/ /\ \E ws \in winsizes :
             /\ screenrows' = ws[1] - 2
             /\ screencols' = ws[2]
        /\ pc' = "open"
        /\ failed' = ""
        /\ written' = << >>
        /\ Returns
  /\ UNCHANGED << cmdrep, raw, hooks, restores, restoreFailed, decoded >>

\* main after initEditor: editorOpen(argv[1]) when a file is named (fopen can
\* fail), then editorSetStatusMsg("Welcome").  A file is the sequence of its
\* lines, terminators stripped; no argument leaves the buffer as an empty file does.
editorOpen(files) ==
  /\ pc = "open"
  /\ \/ /\ failed' = "fopen"
        /\ die("fopen")
        /\ UNCHANGED << numrows, row, statusmsg >>
     \/ /\ \E f \in files :
             /\ row' = LoadRows(row, f)
             /\ numrows' = numrows + Len(f)
        /\ statusmsg' = Bytes(<< "W", "e", "l", "c", "o", "m", "e" >>)
        /\ pc' = "refresh"
        /\ failed' = ""
        /\ written' = << >>
        /\ Returns
  /\ UNCHANGED << mode, cmdbuf, cmdrep, cx, cy, rx, rowoff, coloff, screenrows, screencols,
                  raw, hooks, restores, restoreFailed, decoded >>

\* editorRefreshScreen composing the frame before editorScroll has run.
editorRefreshScreenStale ==
  /\ pc = "refresh"
  /\ UNCHANGED << mode, cmdbuf, cmdrep, cx, cy, screenrows, screencols, numrows, row,
                  statusmsg, raw, hooks, restores, restoreFailed, exitstatus, dieMsg,
                  cleared, decoded >>
  /\ \E o \in ScrollOutcomes :
       /\ rx' = o.s.rx
       /\ rowoff' = o.s.rowoff
       /\ coloff' = o.s.coloff
       /\ IF o.crash
          THEN /\ pc' = "crashed"
               /\ written' = << >>
               /\ failed' = ""
          ELSE /\ pc' = "key"
               /\ written' = << [what |-> "frame", frame |-> Frame] >>
               /\ \E ok \in BOOLEAN : failed' = IF ok THEN "" ELSE "write"

\* editorRefreshScreen: editorScroll, the frame composed from E in a local
\* buffer, and one write of that buffer; the write succeeds or fails, and its
\* result is not looked at.
editorRefreshScreen ==
  /\ pc = "refresh"
  /\ UNCHANGED << mode, cmdbuf, cmdrep, cx, cy, screenrows, screencols, numrows, row,
                  statusmsg, raw, hooks, restores, restoreFailed, exitstatus, dieMsg,
                  cleared, decoded >>
  /\ \E o \in ScrollOutcomes :
       /\ rx' = o.s.rx
       /\ rowoff' = o.s.rowoff
       /\ coloff' = o.s.coloff
       /\ IF o.crash
          THEN /\ pc' = "crashed"
               /\ written' = << >>
               /\ failed' = ""
          ELSE /\ pc' = "key"
               /\ written' = << [what |-> "frame", frame |-> Frame'] >>
               /\ \E ok \in BOOLEAN : failed' = IF ok THEN "" ELSE "write"

\* The effect on the state of one outcome o of the dispatcher.
Apply(o) ==
  /\ mode' = o.mode
  /\ cmdbuf' = o.cmdbuf
  /\ cmdrep' = o.cmdrep
  /\ cx' = o.cx
  /\ cy' = o.cy
  /\ statusmsg' = o.statusmsg
  /\ CASE o.fate = "return" ->
            /\ pc' = "refresh"
            /\ written' = << >>
            /\ Returns
       [] o.fate = "exit" -> editorExit
       [] o.fate = "die" -> die("E.mode not recognised")
       [] OTHER ->
            /\ pc' = "crashed"
            /\ written' = << >>
            /\ Returns
  /\ failed' = ""
  /\ UNCHANGED << rx, rowoff, coloff, screenrows, screencols, numrows, row,
                  raw, hooks, restores, restoreFailed, decoded >>

\* editorProcessKeypress when editorReadKey delivers the bytes inp.
KeyStep(inp) ==
  /\ pc = "key"
  /\ \E o \in editorProcessKeypress(editorReadKey(inp)) : Apply(o)

\* editorProcessKeypress when the first read of editorReadKey fails.
ReadFails ==
  /\ pc = "key"
  /\ failed' = "read"
  /\ die("read")
  /\ UNCHANGED << editor, raw, hooks, restores, restoreFailed, decoded >>

\* One call of editorReadKey on its own (the first one), the terminal holding
\* the bytes given: the first read returns bytes[1], the lookahead reads the
\* next ones.
ReadKeyCall(bytes) ==
  /\ decoded = NoCall
  /\ \E inp \in CharReads(bytes) :
       decoded' = [inp |-> bytes, key |-> editorReadKey(inp), reads |-> LookaheadReads(inp)]
  /\ UNCHANGED << editor, process, io >>

\* The process ends without running the handlers (as _exit would).
RunAtExitNoHandlers ==
  /\ pc = "atexit"
  /\ pc' = "exited"
  /\ failed' = ""
  /\ written' = << >>
  /\ UNCHANGED << editor, raw, hooks, restores, restoreFailed, exitstatus, dieMsg, cleared,
                  decoded >>

\* exit runs the registered handler, disableRawMode: tcsetattr(orig_termios)
\* succeeds, or fails and die calls exit(1) from inside the handler, which is
\* undefined: the process ends with status 1 or is killed.
RunAtExit ==
  /\ pc = "atexit"
  /\ IF hooks = 0
     THEN /\ pc' = "exited"
          /\ failed' = ""
          /\ written' = << >>
          /\ UNCHANGED << raw, restores, restoreFailed, exitstatus, dieMsg, cleared >>
     ELSE /\ restores' = restores + 1
          /\ \/ /\ raw' = FALSE
                /\ pc' = "exited"
                /\ failed' = ""
                /\ written' = << >>
                /\ UNCHANGED << restoreFailed, exitstatus, dieMsg, cleared >>
             \/ /\ restoreFailed' = TRUE
                /\ failed' = "tcsetattr"
                /\ cleared' = TRUE
                /\ written' = ClearScreen
                /\ dieMsg' = "tcsetattr"
                /\ exitstatus' = 1
                /\ pc' \in { "exited", "crashed" }
                /\ UNCHANGED raw
  /\ UNCHANGED << editor, hooks, decoded >>

(***************************** specifications ******************************)

\* Bounds of the model.
MaxCmdLen == 2
MaxNegLen == 2
MaxDigits == 2
MaxRepDigits == 10
MaxScreenRows == 2
MaxScreenCols == 3
MaxKeyLen == 4

\* The input bytes of one call of editorReadKey: one literal byte, or an
\* escape sequence.
Lit(ch) == << Ord(ch) >>
Ctrl(ch) == << CTRL_KEY(Ord(ch)) >>
Seq3(ch) == << ESC, Ord("["), Ord(ch) >>
Seq4(ch) == << ESC, Ord("["), Ord(ch), Ord("~") >>

\* The keys a bounded run admits in the current state: the command buffer is
\* typed into while shorter than maxlen and deleted from while its len is
\* above -maxneg; a digit is added to a count of fewer than maxdigits digits.
Admits(inp, maxlen, maxneg, maxdigits) ==
  LET c == editorReadKey(inp)
  IN  /\ (mode = COMMAND_MODE /\ c \notin { ENTER, ESC, Ord("8") }) => cmdbuf.len < maxlen
      /\ (mode = COMMAND_MODE /\ c = Ord("8")) => cmdbuf.len > -maxneg
      /\ (mode = NORMAL_MODE /\ IsRepDigit(c, cmdrep)) =>
             (cmdrep >= 0 /\ cmdrep < 10 ^ (maxdigits - 1))

\* Spec: the modes, the command buffer and the ways the process ends.
Inputs ==
  { Lit("i"), Lit(":"), Ctrl("q"), Lit("ESC"), Lit("CR"), Lit("q"), Lit("x"), Lit("8"),
    Lit("9"), Seq3("B"), Seq4("3"), << ESC, Ord("[") >>, << ESC, Ord("x"), Ord("y") >> }

Files == { << >>, << Bytes(<< "a", "b" >>), << >> >> }

WinSizes == { << 3, 2 >> }

Next ==
  \/ enableRawMode
  \/ initEditor(WinSizes)
  \/ editorOpen(Files)
  \/ editorRefreshScreen
  \/ \E inp \in Inputs : Admits(inp, MaxCmdLen, MaxNegLen, MaxDigits) /\ KeyStep(inp)
  \/ ReadFails
  \/ RunAtExit

Spec == Init /\ [][Next]_vars

\* SpecCursor: the cursor and the viewport in Normal and Insert mode, over
\* files with tabs, spaces, punctuation and empty rows and every window of
\* up to MaxScreenRows text rows and MaxScreenCols columns; the digit starts
\* a repeat count.
CursorInputs ==
  { Lit("h"), Lit("j"), Lit("k"), Lit("l"),
    Seq3("A"), Seq3("B"), Seq3("C"), Seq3("D"),
    Lit("w"), Lit("W"), Lit("e"), Lit("E"), Lit("b"), Lit("B"),
    Lit("0"), Lit("$"), Seq3("H"), Seq3("F"), Seq4("1"), Seq4("4"), Seq4("7"), Seq4("8"),
    Seq4("5"), Seq4("6"), Ctrl("u"), Ctrl("d"),
    Lit("i"), Lit("ESC"), Lit("x"), Seq4("3"), Lit("2") }

CursorFiles ==
  { << >>,
    << Bytes(<< "a", "TAB", "b" >>) >>,
    << Bytes(<< "a", "b", " ", " ", "c", "d" >>), << >>, Bytes(<< "a", ".", "b" >>) >>,
    << << >>, Bytes(<< "TAB", "a", " " >>), Bytes(<< " ", "a" >>), Bytes(<< "a", "b" >>) >> }

CursorWinSizes == { << r + 2, c >> : r \in 1..MaxScreenRows, c \in 1..MaxScreenCols }

NextCursor ==
  \/ enableRawMode
  \/ initEditor(CursorWinSizes)
  \/ editorOpen(CursorFiles)
  \/ editorRefreshScreen
  \/ \E inp \in CursorInputs : Admits(inp, MaxCmdLen, MaxNegLen, MaxDigits) /\ KeyStep(inp)
  \/ ReadFails
  \/ RunAtExit

SpecCursor == Init /\ [][NextCursor]_vars

\* SpecRep: the repeat count up to the width of int.
RepInputs ==
  { Lit("0"), Lit("3"), Lit("j"), Lit("x"), Lit("i"), Lit("ESC") }

NextRep ==
  \/ enableRawMode
  \/ initEditor(WinSizes)
  \/ editorOpen(Files)
  \/ editorRefreshScreen
  \/ \E inp \in RepInputs : Admits(inp, MaxCmdLen, MaxNegLen, MaxRepDigits) /\ KeyStep(inp)
  \/ ReadFails
  \/ RunAtExit

SpecRep == Init /\ [][NextRep]_vars

\* SpecKey: editorReadKey on every burst of up to MaxKeyLen bytes made of
\* an ASCII or a high first byte, an introducer, a final byte and a fourth byte.
KeyBytesAt(i) ==
  CASE i = 1 -> { ESC, Ord("a"), Ord("["), Ord("~"), Ord("1"), 195, 255 }
    [] i = 2 -> { Ord("["), Ord("O"), Ord("x") }
    [] i = 3 -> { Ord(ch) : ch \in { "A", "B", "C", "D", "H", "F", "E", "x", "~",
                                     "0", "1", "2", "3", "4", "5", "6", "7", "8", "9" } }
    [] i = 4 -> { Ord("~"), Ord("x"), Ord("A") }
    [] OTHER -> { Ord("x") }

RECURSIVE KeySeqs(_)
KeySeqs(n) ==
  IF n = 0 THEN { << >> }
  ELSE { Append(q, b) : q \in KeySeqs(n - 1), b \in KeyBytesAt(n) }

KeyInputs == UNION { KeySeqs(n) : n \in 1..MaxKeyLen }

NextKey == \E bytes \in KeyInputs : ReadKeyCall(bytes)

SpecKey == Init /\ [][NextKey]_vars

\* SpecRow: every one-line file of up to MaxRowLen bytes over a tab and two
\* ordinary characters, with the cursor walking along the row.
MaxRowLen == 3

RowBytes == { Ord("TAB"), Ord("a"), Ord("b") }

RECURSIVE RowsOfLen(_)
RowsOfLen(n) ==
  IF n = 0 THEN { << >> }
  ELSE { Append(t, c) : t \in RowsOfLen(n - 1), c \in RowBytes }

RowFiles == { << t >> : t \in UNION { RowsOfLen(n) : n \in 0..MaxRowLen } }

RowInputs == { Lit("l"), Lit("h"), Lit("$"), Lit("0") }

NextRow ==
  \/ enableRawMode
  \/ initEditor(WinSizes)
  \/ editorOpen(RowFiles)
  \/ editorRefreshScreen
  \/ \E inp \in RowInputs : KeyStep(inp)
  \/ ReadFails
  \/ RunAtExit

SpecRow == Init /\ [][NextRow]_vars

\* SpecWord: nothing but word motions are typed, and typing goes on: a key
\* that is waited for arrives and a frame that is due is drawn.
WordInputs == { Lit("w"), Lit("W"), Lit("e"), Lit("E") }

WordKey == \E inp \in WordInputs : KeyStep(inp)

NextWord ==
  \/ enableRawMode
  \/ initEditor(CursorWinSizes)
  \/ editorOpen(CursorFiles)
  \/ editorRefreshScreen
  \/ WordKey
  \/ ReadFails
  \/ RunAtExit

SpecWord ==
  Init /\ [][NextWord]_vars /\ WF_vars(editorRefreshScreen) /\ WF_vars(WordKey)

\* SpecTiny: a terminal of two rows, where E.screenrows = ws_row - 2 is 0,
\* next to those of three and four rows.  With no text row PageUp and Ctrl-U raise E.cy
\* at every press: they are admitted until E.cy is MaxOvershoot past numrows.
MaxOvershoot == 1

TinyInputs ==
  { Seq4("5"), Seq4("6"), Ctrl("u"), Ctrl("d"), Lit("j"), Lit("k"), Lit("l"), Lit("x") }

TinyWinSizes == { << 2, 2 >>, << 3, 2 >>, << 4, 2 >> }

TinyAdmits(inp) ==
  editorReadKey(inp) \in { PAGE_UP, CTRL_KEY(Ord("u")) } => cy < numrows + MaxOvershoot

NextTiny ==
  \/ enableRawMode
  \/ initEditor(TinyWinSizes)
  \/ editorOpen(Files)
  \/ editorRefreshScreen
  \/ \E inp \in TinyInputs : TinyAdmits(inp) /\ KeyStep(inp)
  \/ ReadFails
  \/ RunAtExit

SpecTiny == Init /\ [][NextTiny]_vars

(********************************* claims **********************************)

\* The process is inside the loop of main.
InLoop == pc \in { "refresh", "key" }

\* The mode the transition table of the dispatcher gives for key c in mode m.
ModeTable(m, c) ==
  CASE m = NORMAL_MODE /\ c = Ord("i") -> INSERT_MODE
    [] m = NORMAL_MODE /\ c = Ord(":") -> COMMAND_MODE
    [] m = INSERT_MODE /\ c = ESC -> NORMAL_MODE
    [] m = COMMAND_MODE /\ (c = ENTER \/ c = ESC) -> NORMAL_MODE
    [] OTHER -> m

\* C1 (state part): once initEditor has run the mode is one of Normal,
\* Insert and Command, it is Normal when the loop is entered, and die was
\* never called for an unrecognised mode.
C1_ModeInv ==
  /\ pc \notin { "main", "initEditor" } => mode \in { NORMAL_MODE, INSERT_MODE, COMMAND_MODE }
  /\ pc = "open" => mode = NORMAL_MODE
  /\ dieMsg # "E.mode not recognised"

\* C1 (step part): a key the handler returns from leaves the mode the table
\* gives for it (the mode itself for every pair outside the table), and a key
\* that ends the process leaves the mode as it was.
C1_ModeStep ==
  \A inp \in Inputs :
    KeyStep(inp) =>
      /\ pc' = "refresh" => mode' = ModeTable(mode, editorReadKey(inp))
      /\ pc' # "refresh" => mode' = mode

\* C1: the mode is always one of the three and follows the transition table.
C1_Modes == [] C1_ModeInv /\ [][C1_ModeStep]_vars

\* C1 witness: back in Normal mode after a visit to Command mode in which the
\* command buffer was typed into and released.
C1_Witness == pc = "refresh" /\ mode = NORMAL_MODE /\ cmdbuf.ptr = "freed"

\* C2: the cursor stays inside the buffer: 0 <= cy <= numrows and
\* 0 <= cx <= size of row cy, with cx = 0 when cy = numrows (no row there),
\* in every state, so after every key in every mode.
C2_CursorBounds ==
  /\ 0 <= cy /\ cy <= numrows
  /\ 0 <= cx
  /\ cy < numrows => cx <= row[cy + 1].size
  /\ cy = numrows => cx = 0

\* C2 witness: a three-row buffer with the cursor moved down to the position
\* past the last row; the key that got it there has just been processed.
C2_Witness == pc = "refresh" /\ numrows = 3 /\ cy = numrows /\ cx = 0

\* The rendered width of the first n characters of a row, by the rule of
\* editorUpdateRow.
RenderedWidth(r, n) == Len(RenderFrom(SubSeq(r.chars, 1, n), 0, << >>))

\* C3: right after editorScroll (the frame is composed from this state) the
\* offsets are non-negative, the cursor row is inside [rowoff, rowoff +
\* screenrows) and the rendered column rx, the width of the cx characters
\* before the cursor (0 past the last row), inside [coloff, coloff +
\* screencols); so the cursor position written in the frame lies on the screen.
C3_Viewport ==
  pc = "key" =>
    /\ rowoff >= 0 /\ coloff >= 0
    /\ rx = (IF cy < numrows THEN RenderedWidth(row[cy + 1], cx) ELSE 0)
    /\ rowoff <= cy /\ cy < rowoff + screenrows
    /\ coloff <= rx /\ rx < coloff + screencols
    /\ CursorEscape[1] \in 1..screenrows
    /\ CursorEscape[2] \in 1..screencols

\* C3 witness: a frame drawn with the view scrolled both down and right, the
\* cursor behind a tab.
C3_Witness ==
  /\ pc = "key" /\ rowoff > 0 /\ coloff > 0
  /\ cy < numrows /\ rx > cx

\* C4 as claimed: after exit the terminal is never in the raw configuration.
C4_NeverRawAfterExit == pc = "exited" => ~raw

\* C4 (amended): disableRawMode is registered exactly once, before the raw
\* configuration is applied; every exit of a process that registered it ran
\* it exactly once; and after exit the terminal is still raw only when the
\* tcsetattr of that restoration itself failed (die, status 1).
C4_Restore ==
  /\ hooks <= 1
  /\ raw => hooks = 1
  /\ (pc \notin { "main", "atexit", "exited" } \/ dieMsg \notin { "", "tcgetattr" }) => hooks = 1
  /\ (pc \notin { "exited", "crashed" }) => restores = 0
  /\ (pc = "exited" /\ hooks = 1) => restores = 1
  /\ (pc = "exited" /\ raw) => (restoreFailed /\ dieMsg = "tcsetattr" /\ exitstatus = 1)

\* C4 witness: the process quit from the loop, the handler ran once and the
\* terminal is back in its original configuration.
C4_Witness ==
  pc = "exited" /\ exitstatus = 0 /\ hooks = 1 /\ restores = 1 /\ ~raw /\ ~restoreFailed

\* The bytes of the command buffer, E.cmdbuf.b[0 .. len).
Buffer(ab) == IF ab.len > 0 THEN SubSeq(ab.b, 1, ab.len) ELSE << >>

\* The keys that quit: Ctrl-Q in Normal mode, Enter in Command mode over a
\* buffer that holds a 'q'.
QuitKey(c) ==
  \/ mode = NORMAL_MODE /\ c = CTRL_KEY(Ord("q"))
  \/ mode = COMMAND_MODE /\ c = ENTER
       /\ \E j \in 1..Len(Buffer(cmdbuf)) : Buffer(cmdbuf)[j] = Ord("q")

\* C5 (step): a key makes the process leave normally (the screen is cleared
\* and exit(0) is called, editor state untouched) exactly when it is a quit key.
C5_QuitStep ==
  \A inp \in Inputs :
    KeyStep(inp) =>
      ((pc' = "atexit" /\ exitstatus' = 0 /\ cleared') <=> QuitKey(editorReadKey(inp)))

\* C5: normal termination is started by the quit keys and by no other key.
C5_Quit == [][C5_QuitStep]_vars

\* C5 witness: the process has ended with status 0 after :q<Enter>.
C5_Witness ==
  /\ pc = "exited" /\ exitstatus = 0 /\ cleared
  /\ mode = COMMAND_MODE /\ Buffer(cmdbuf) = << Ord("q") >>

\* C6 (step): a step that leaves Command mode empties the command buffer and
\* the status message.
C6_LeaveStep ==
  (mode = COMMAND_MODE /\ mode' # COMMAND_MODE) => (cmdbuf'.len = 0 /\ statusmsg' = << >>)

\* C6: outside Command mode the command buffer has length 0, and leaving
\* Command mode sets the status message to the empty string.
C6_Cleared == [] (mode # COMMAND_MODE => cmdbuf.len = 0) /\ [][C6_LeaveStep]_vars

\* C6 witness: Normal mode again after a command was typed and abandoned.
C6_Witness ==
  /\ pc = "key" /\ mode = NORMAL_MODE /\ statusmsg = << >>
  /\ cmdbuf = [b |-> << >>, len |-> 0, ptr |-> "freed"]

\* C7 as claimed (step): in Command mode the delete key takes the last byte
\* off a non-empty command buffer, leaves an empty one empty, and keeps the mode.
C7_DeleteStep ==
  (mode = COMMAND_MODE /\ KeyStep(Lit("8"))) =>
    /\ mode' = COMMAND_MODE
    /\ cmdbuf.len >= 1 =>
         (cmdbuf'.len = cmdbuf.len - 1
          /\ Buffer(cmdbuf') = SubSeq(Buffer(cmdbuf), 1, cmdbuf.len - 1))
    /\ cmdbuf.len = 0 => cmdbuf'.len = 0
    /\ cmdbuf'.len >= 0

\* C7 as claimed.
C7_Delete == [][C7_DeleteStep]_vars

\* C8 as claimed (step): in Command mode a printable character key the
\* handler returns from is appended to the command buffer, and the status
\* message is ':' followed by the buffer.
C8_AppendStep ==
  \A inp \in Inputs :
    (mode = COMMAND_MODE /\ isprint(editorReadKey(inp)) /\ KeyStep(inp) /\ pc' = "refresh") =>
      /\ mode' = COMMAND_MODE
      /\ cmdbuf'.len = cmdbuf.len + 1
      /\ Buffer(cmdbuf') = Buffer(cmdbuf) \o << editorReadKey(inp) >>
      /\ statusmsg' = << Ord(":") >> \o Buffer(cmdbuf')

\* C8 as claimed.
C8_Append == [][C8_AppendStep]_vars

\* The key c is a digit that is added to the repeat count: 1-9, or 0 when a
\* count is pending.
CountDigit(c) ==
  (c >= Ord("1") /\ c <= Ord("9")) \/ (c = Ord("0") /\ cmdrep # 0)

\* C9 as claimed (step): in Normal mode a count digit d gives count * 10 + d
\* and changes nothing else; 0 with no count pending moves to column 0; any
\* other key the handler returns from leaves the count at 0.
C9_CountStep ==
  \A inp \in RepInputs :
    LET c == editorReadKey(inp)
    IN  (mode = NORMAL_MODE /\ KeyStep(inp) /\ pc' = "refresh") =>
          IF CountDigit(c)
          THEN /\ cmdrep' >= 0
               /\ cmdrep' % 10 = c - Ord("0")
               /\ cmdrep' \div 10 = cmdrep
               /\ UNCHANGED << mode, cx, cy, cmdbuf, statusmsg >>
          ELSE /\ cmdrep' = 0
               /\ c = Ord("0") => (cx' = 0 /\ cy' = cy)

\* C9 as claimed.
C9_Count == [][C9_CountStep]_vars

\* C10 as claimed: the repeat count is never negative, and it is non-zero
\* only in Normal mode.
C10_CountNonNegative ==
  /\ cmdrep >= 0
  /\ cmdrep # 0 => mode = NORMAL_MODE

\* C11 as claimed: ESC [ A/B/C/D is Up/Down/Right/Left, ESC [ H/F is
\* Home/End, ESC [ d ~ is Home (d = 1, 7), Delete (3), End (4, 8), PageUp (5),
\* PageDown (6), and a first byte other than ESC is returned as its own code;
\* the call returns one key.
C11_Decoder ==
  decoded # NoCall =>
    LET b == decoded.inp
        k == decoded.key
        csi == Len(b) >= 3 /\ b[1] = ESC /\ b[2] = Ord("[")
        tilde == csi /\ Len(b) >= 4 /\ b[4] = Ord("~")
    IN  /\ b[1] # ESC => k = b[1]
        /\ (csi /\ b[3] = Ord("A")) => k = ARROW_UP
        /\ (csi /\ b[3] = Ord("B")) => k = ARROW_DOWN
        /\ (csi /\ b[3] = Ord("C")) => k = ARROW_RIGHT
        /\ (csi /\ b[3] = Ord("D")) => k = ARROW_LEFT
        /\ (csi /\ b[3] = Ord("H")) => k = HOME_KEY
        /\ (csi /\ b[3] = Ord("F")) => k = END_KEY
        /\ (tilde /\ b[3] \in { Ord("1"), Ord("7") }) => k = HOME_KEY
        /\ (tilde /\ b[3] = Ord("3")) => k = DEL_KEY
        /\ (tilde /\ b[3] \in { Ord("4"), Ord("8") }) => k = END_KEY
        /\ (tilde /\ b[3] = Ord("5")) => k = PAGE_UP
        /\ (tilde /\ b[3] = Ord("6")) => k = PAGE_DOWN

\* The byte sequences the key decoder recognises: ESC [ and a final letter,
\* or ESC [ digit ~ with a digit that names a key.
Recognised(b) ==
  /\ Len(b) >= 3 /\ b[1] = ESC /\ b[2] = Ord("[")
  /\ \/ b[3] \in { Ord("A"), Ord("B"), Ord("C"), Ord("D"), Ord("H"), Ord("F") }
     \/ /\ Len(b) >= 4 /\ b[4] = Ord("~")
        /\ b[3] \in { Ord("1"), Ord("3"), Ord("4"), Ord("5"), Ord("6"), Ord("7"), Ord("8") }

\* C12: after its first byte a call makes at most 3 further reads, at most
\* one of which returns no byte, and then returns; when the first byte is ESC
\* and the bytes that follow are missing or form no recognised sequence, the
\* key returned is a bare ESC.
C12_Degrade ==
  decoded # NoCall =>
    /\ decoded.reads >= 0 /\ decoded.reads <= 3
    /\ decoded.reads <= Len(decoded.inp)
    /\ (decoded.inp[1] = ESC /\ ~Recognised(decoded.inp)) => decoded.key = ESC

\* C12 witness: ESC [ 2 ~ was read with all three lookahead reads and came
\* out as ESC.
C12_Witness ==
  /\ decoded.inp = << ESC, Ord("["), Ord("2"), Ord("~") >>
  /\ decoded.key = ESC /\ decoded.reads = 3

\* C13 as claimed: a step in which a terminal call or the opening of the file
\* failed is a step into the fatal path: the clear sequence is written, die
\* is called for the failing operation, exit(1) is called, and main does not
\* go on.
C13_Fatal ==
  failed # "" =>
    /\ cleared /\ written = ClearScreen
    /\ dieMsg = failed
    /\ exitstatus = 1
    /\ pc \in { "atexit", "exited", "crashed" }

\* C14 (step): a step of the loop is a frame exactly when the one before was
\* none; a frame step runs editorScroll, leaves the cursor, the mode, the
\* command buffer, the repeat count, the message and the rows as the last key
\* left them, and makes exactly one write, of the frame composed from that
\* state and the offsets just computed; the processing of a key writes no frame.
C14_FrameStep ==
  /\ pc' = "refresh" => pc \in { "open", "key" }
  /\ pc' = "key" => pc = "refresh"
  /\ pc = "refresh" =>
       /\ pc' = "key"
       /\ UNCHANGED << mode, cmdbuf, cmdrep, cx, cy, statusmsg, numrows, row >>
       /\ [rx |-> rx', rowoff |-> rowoff', coloff |-> coloff'] = editorScroll
       /\ Len(written') = 1
       /\ written'[1].what = "frame"
       /\ written'[1].frame.bar = << editorGetMode, numrows, cy + 1, cx + 1 >>
       /\ written'[1].frame.rep = cmdrep
       /\ written'[1].frame.msg = SubSeq(statusmsg, 1, Min(Len(statusmsg), screencols))
       /\ written'[1].frame.cursor = << cy + 1 - rowoff', rx' + 1 - coloff' >>
       /\ written'[1].frame.lines = [y \in 1..screenrows |-> DrawRow(y - 1)']
  /\ (pc = "key" /\ pc' = "refresh") => written' = << >>

\* C14: frames and keys alternate, starting with a frame, and each frame is
\* scrolled, composed and written in one piece.
C14_Frames == [][C14_FrameStep]_vars

\* C14 witness: the frame after the key 'q' typed in Command mode, drawn with
\* the view scrolled down by one row.
C14_Witness ==
  /\ pc = "key" /\ Len(written) = 1 /\ written[1].what = "frame"
  /\ written[1].frame.bar[1] = "COMMAND"
  /\ written[1].frame.msg = << Ord(":"), Ord("q") >>
  /\ rowoff = 1 /\ written[1].frame.cursor = << 1, 1 >>

\* The four arrow keys.
Arrows == { ARROW_UP, ARROW_DOWN, ARROW_LEFT, ARROW_RIGHT }

\* C15 (step): no step of the loop changes the rows; in Insert mode a key
\* other than ESC and the arrows changes nothing of E, ESC changes the mode
\* only, and an arrow the cursor only.
C15_RowsStep ==
  /\ InLoop => UNCHANGED << numrows, row >>
  /\ \A inp \in CursorInputs :
       (mode = INSERT_MODE /\ KeyStep(inp)) =>
         LET c == editorReadKey(inp)
         IN  /\ pc' = "refresh"
             /\ c \notin Arrows \cup { ESC } => UNCHANGED editor
             /\ c = ESC => (mode' = NORMAL_MODE /\ UNCHANGED << cx, cy, cmdbuf, cmdrep, statusmsg >>)
             /\ c \in Arrows => UNCHANGED << mode, cmdbuf, cmdrep, statusmsg >>

\* C15: in the loop the rows are those editorOpen loaded, content and
\* rendered form, whatever keys were typed.
C15_Rows ==
  /\ [] (InLoop => (numrows = Len(row) /\ \E f \in CursorFiles : row = LoadRows(<< >>, f)))
  /\ [][C15_RowsStep]_vars

\* C15 witness: Insert mode over the three-row file, the cursor moved off the
\* origin, a key just processed.
C15_Witness ==
  /\ pc = "refresh" /\ mode = INSERT_MODE /\ numrows = 3 /\ cy = 2 /\ cx = 3
  /\ row[1].chars = Bytes(<< "a", "b", " ", " ", "c", "d" >>)

\* The keys of Normal mode that the transition table names: i, :, Ctrl-Q, the
\* digits that count, 0 and Home, $ and End, the page keys, h j k l, the
\* arrows and w W e E.
NormalTableKeys ==
  { Ord("i"), Ord(":"), CTRL_KEY(Ord("q")), Ord("0"), HOME_KEY, Ord("$"), END_KEY,
    PAGE_UP, PAGE_DOWN, CTRL_KEY(Ord("u")), CTRL_KEY(Ord("d")),
    Ord("h"), Ord("j"), Ord("k"), Ord("l"),
    Ord("w"), Ord("W"), Ord("e"), Ord("E") }
  \cup Arrows \cup (Ord("1")..Ord("9"))

\* The inputs of SpecCursor that decode to a key outside that table.
OtherInputs == { inp \in CursorInputs : editorReadKey(inp) \notin NormalTableKeys }

\* C16 (step): in Normal mode a key outside the table returns with the mode,
\* the cursor, the command buffer and the message as they were and with the
\* repeat count at 0.
C16_OtherStep ==
  \A inp \in OtherInputs :
    (mode = NORMAL_MODE /\ KeyStep(inp)) =>
      /\ pc' = "refresh"
      /\ cmdrep' = 0
      /\ UNCHANGED << mode, cx, cy, cmdbuf, statusmsg >>

ExampleRow == Bytes(<< "a", "TAB", "b" >>)

\* C17: in every row the render holds, for each character of chars, either
\* the character itself or, for a tab, between 1 and NI_TAB_STOP spaces that
\* end on a multiple of NI_TAB_STOP; editorRowCxToRx(row, cx) is the index in
\* render where character cx starts, it is 0 at cx = 0, strictly increasing,
\* and equal to rsize at cx = size; the row a, TAB, b gives 1 at cx = 1 and
\* 4 at cx = 2.
C17_TabRender ==
  \A y \in 1..numrows :
    LET r == row[y] IN
      /\ r.size = Len(r.chars)
      /\ r.rsize = Len(r.render)
      /\ editorRowCxToRx(r, 0) = 0
      /\ editorRowCxToRx(r, r.size) = r.rsize
      /\ \A c \in 0..(r.size - 1) :
           LET a == editorRowCxToRx(r, c)
               b == editorRowCxToRx(r, c + 1)
           IN  /\ a < b
               /\ b <= r.rsize
               /\ IF r.chars[c + 1] = Ord("TAB")
                  THEN /\ b - a \in 1..NI_TAB_STOP
                       /\ b % NI_TAB_STOP = 0
                       /\ \A i \in (a + 1)..b : r.render[i] = Ord(" ")
                  ELSE /\ b = a + 1
                       /\ r.render[b] = r.chars[c + 1]
      /\ r.chars = ExampleRow =>
           /\ editorRowCxToRx(r, 1) = 1
           /\ editorRowCxToRx(r, 2) = 4
           /\ r.render = Bytes(<< "a", " ", " ", " ", "b" >>)

\* C17 witness: the row a, TAB, b is loaded and drawn with the cursor on b,
\* whose rendered column is 4.
C17_Witness ==
  /\ pc = "key" /\ numrows = 1 /\ row[1].chars = ExampleRow
  /\ cx = 2 /\ rx = 4 /\ row[1].rsize = 5

\* The clamp of the claim: an offset off moves to pos when pos is before it,
\* to pos - size + 1 when pos is at or past off + size, and stays otherwise.
Clamp(off, pos, size) ==
  IF pos < off THEN pos
  ELSE IF pos >= off + size THEN pos - size + 1
  ELSE off

\* C18 (step): a call of editorScroll that returns moves rowoff by the clamp
\* on cy and screenrows and coloff by the clamp on the new rx and screencols,
\* and a second call in the state it leaves changes nothing.
C18_ScrollStep ==
  (pc = "refresh" /\ pc' = "key") =>
    /\ rowoff' = Clamp(rowoff, cy, screenrows)
    /\ coloff' = Clamp(coloff, rx', screencols)
    /\ CursorInRow => editorScroll' = [rx |-> rx', rowoff |-> rowoff', coloff |-> coloff']

\* C18 as stated, for every window: editorScroll moves the offsets only when
\* needed and by the minimum amount, and is idempotent.
C18_Scroll == [][C18_ScrollStep]_vars

\* C18: in a window of at least one text row and one column editorScroll
\* moves each offset only when the cursor is outside the window, and then by
\* the minimum amount, and a second call changes nothing.
C18_ScrollInWindow == [][(screenrows >= 1 /\ screencols >= 1) => C18_ScrollStep]_vars

\* C18 witness: a window of two text rows scrolled down by one row and right
\* by one column and then left again: the cursor, past the last row of a
\* two-row file, is on the last visible row.
C18_Witness ==
  /\ pc = "key" /\ screenrows = 2 /\ numrows = 2
  /\ cy = 2 /\ rowoff = 1 /\ coloff = 0

\* The four page keys as they arrive.
PageInputs == { Seq4("5"), Seq4("6"), Ctrl("u"), Ctrl("d") }

\* C19 (step): in Normal mode PageUp and Ctrl-U end at cy = max(0, rowoff -
\* screenrows); PageDown and Ctrl-D snap cy to min(rowoff + screenrows - 1,
\* numrows) and end at min(numrows, snapped + screenrows); Ctrl-U moves as
\* PageUp does and Ctrl-D as PageDown; cx ends inside the final row, never
\* right of where it was; the mode stays Normal.
C19_PageStep ==
  \A inp \in PageInputs :
    (mode = NORMAL_MODE /\ KeyStep(inp)) =>
      LET up == editorReadKey(inp) \in { PAGE_UP, CTRL_KEY(Ord("u")) }
          snapped == IF up THEN rowoff ELSE Min(rowoff + screenrows - 1, numrows)
          last == IF up THEN (IF rowoff - screenrows > 0 THEN rowoff - screenrows ELSE 0)
                  ELSE Min(numrows, snapped + screenrows)
      IN  /\ pc' = "refresh"
          /\ mode' = NORMAL_MODE
          /\ cy' = last
          /\ cx' <= RowLen(cy')
          /\ cx' <= cx
          /\ [cx |-> cx', cy |-> cy'] = PageMove(Here, IF up THEN PAGE_UP ELSE PAGE_DOWN)

\* C19: the page keys move the cursor by one screen from the edge of the
\* window and leave it inside the buffer.
C19_Pages == [][C19_PageStep]_vars

\* The keys of the left/right motion as they arrive: h, l, Right, Left.
SideInputs == { Lit("h"), Lit("l"), Seq3("C"), Seq3("D") }

\* C20 (step): Left (h or the arrow in Normal mode, the arrow in Insert mode)
\* gives cx - 1 when cx > 0, the end of the previous row when cx = 0 and
\* cy > 0, and nothing at (0, 0); Right gives cx + 1 inside a row, the start
\* of the next row at the end of a row, and nothing at cy = numrows.  The
\* cursor is on a row or at cy = numrows when the key arrives.
C20_SideStep ==
  \A inp \in SideInputs :
    LET key == editorReadKey(inp)
        left == key \in { Ord("h"), ARROW_LEFT }
    IN  (/\ mode = NORMAL_MODE \/ (mode = INSERT_MODE /\ key \in Arrows)
         /\ cy <= numrows
         /\ KeyStep(inp)) =>
          /\ pc' = "refresh"
          /\ (left /\ cx > 0) => (cx' = cx - 1 /\ cy' = cy)
          /\ (left /\ cx = 0 /\ cy > 0 /\ cy <= numrows) =>
               (cx' = row[cy].size /\ cy' = cy - 1)
          /\ (left /\ cx = 0 /\ cy = 0) => (cx' = cx /\ cy' = cy)
          /\ (~left /\ cy < numrows /\ cx < row[cy + 1].size) => (cx' = cx + 1 /\ cy' = cy)
          /\ (~left /\ cy < numrows /\ cx = row[cy + 1].size) => (cx' = 0 /\ cy' = cy + 1)
          /\ (~left /\ cy = numrows) => (cx' = cx /\ cy' = cy)

\* C20 (round trip): from a cursor on an existing row, Right and then Left
\* come back to the same place.
C20_RoundTrip ==
  (cy < numrows /\ cx <= row[cy + 1].size) =>
    editorMoveCursor(editorMoveCursor(Here, ARROW_RIGHT), ARROW_LEFT) = Here

WordRow == Bytes(<< "a", "b", " ", " ", "c", "d" >>)

\* Where a word motion ends when the keys in skipping move past the spaces
\* that follow the scan and the others do not: the scan runs to one past the
\* first space (w and e also stop before punctuation), and a result at or
\* past the end of the row is the start of the next row.
WordEnd(cur, key, skipping) ==
  LET r == row[cur.cy + 1]
      scanned == IF key \in { Ord("W"), Ord("E") } THEN ScanUpper(r, cur.cx)
                 ELSE ScanLower(r, cur.cx)
      stop == IF key \in skipping THEN SkipSpaces(r, scanned) ELSE scanned
  IN  IF stop >= r.size THEN [cx |-> 0, cy |-> cur.cy + 1] ELSE [cx |-> stop, cy |-> cur.cy]

\* A word motion in Normal mode on an existing row ends where WordEnd says.
WordStep(skipping) ==
  \A inp \in WordInputs :
    (mode = NORMAL_MODE /\ cy < numrows /\ KeyStep(inp)) =>
      /\ pc' = "refresh"
      /\ [cx |-> cx', cy |-> cy'] = WordEnd(Here, editorReadKey(inp), skipping)
      /\ (editorReadKey(inp) \in skipping /\ cy' = cy) => row[cy + 1].chars[cx' + 1] # Ord(" ")

\* C21 as stated: the lowercase motions w and e move past the spaces after
\* the scan, W and E do not; on the row ab__cd from cx = 0, e ends at cx = 4.
C21_WordsAsStated ==
  [][/\ WordStep({ Ord("w"), Ord("e") })
     /\ \A inp \in { Lit("e") } :
          (mode = NORMAL_MODE /\ cy < numrows /\ row[cy + 1].chars = WordRow /\ cx = 0
           /\ KeyStep(inp)) => (cx' = 4 /\ cy' = cy)]_vars

\* C21: w and W move past the spaces after the scan, e and E do not; on the
\* row ab__cd from cx = 0, w and W end on the c (cx = 4) and e and E on the
\* second space (cx = 3).
C21_Words ==
  [][/\ WordStep({ Ord("w"), Ord("W") })
     /\ \A inp \in WordInputs :
          (mode = NORMAL_MODE /\ cy < numrows /\ row[cy + 1].chars = WordRow /\ cx = 0
           /\ KeyStep(inp)) =>
            (cy' = cy /\ cx' = IF inp \in { Lit("w"), Lit("W") } THEN 4 ELSE 3)]_vars

\* C21 witness: a key has been processed in Normal mode and the cursor is on
\* the second space of ab__cd, where e and E arrive from cx = 0.
C21_Witness ==
  /\ pc = "refresh" /\ mode = NORMAL_MODE /\ cy = 0 /\ numrows = 3
  /\ row[1].chars = WordRow /\ cx = 3
  /\ editorMoveCursor([cx |-> 0, cy |-> 0], Ord("e")) = Here

\* The keys of the four word motions.
WordKeys == { Ord("w"), Ord("W"), Ord("e"), Ord("E") }

\* C22 (every position): from every cursor on a row of the loaded file each
\* word motion ends strictly later in the order of (cy, cx), either inside
\* the same row (cx < size) or at the start of the next row, and reads no
\* offset of the row greater than its size.
C22_Advance ==
  \A y \in 0..(numrows - 1) : \A x \in 0..row[y + 1].size : \A key \in WordKeys :
    LET to == editorMoveCursor([cx |-> x, cy |-> y], key)
    IN  /\ \/ to.cy = y /\ to.cx > x /\ to.cx < row[y + 1].size
           \/ to = [cx |-> 0, cy |-> y + 1]
        /\ \A o \in WordReads([cx |-> x, cy |-> y], key) : o >= 0 /\ o <= row[y + 1].size

\* C22 (step): a word motion typed in Normal mode moves the cursor as
\* editorMoveCursor says, forward on a row and not at all at cy = numrows.
C22_WordStep ==
  \A inp \in WordInputs :
    (mode = NORMAL_MODE /\ cy <= numrows /\ KeyStep(inp)) =>
      /\ [cx |-> cx', cy |-> cy'] = editorMoveCursor(Here, editorReadKey(inp))
      /\ cy < numrows => (cy' > cy \/ (cy' = cy /\ cx' > cx))
      /\ cy = numrows => (cx' = cx /\ cy' = cy)

\* C22 (progress): while word motions keep being typed the cursor reaches
\* cy = numrows, unless the editor has left its loop.
C22_Reaches == (pc = "key") ~> (cy = numrows \/ ~InLoop)

\* C22: word motions advance, stay inside the row they read, and end at
\* cy = numrows, where they do nothing.
C22_Progress == [] C22_Advance /\ [][C22_WordStep]_vars /\ C22_Reaches

\* C22 witness: word motions alone have brought the cursor from the start of
\* a four-row file to cy = numrows, and one more has just been processed.
C22_Witness ==
  /\ pc = "refresh" /\ mode = NORMAL_MODE /\ numrows = 4 /\ cy = numrows /\ cx = 0

====
